---- MODULE Spec2Model ----
(***************************************************************************)
(* Document question answering backend: the chunker                        *)
(* (DocumentProcessor.chunk_text), the batched answer generation           *)
(* (GeminiClient.generate_answer_batched) and the document registry with   *)
(* the /upload, /documents/{id}/chunks and /ask handlers of main.py.       *)
(*                                                                         *)
(* Three specifications share the module:                                  *)
(*   ChunkSpec   one run of chunk_text over a text drawn from a bounded    *)
(*               family of texts;                                          *)
(*   GenSpec     one call of generate_answer_batched over a bounded chunk  *)
(*               sequence and batch size;                                  *)
(*   ServerSpec  the request handlers over the in-memory registry.         *)
(***************************************************************************)
EXTENDS Integers, Sequences, FiniteSets, TLC

(***************************************************************************)
(* Program constants.                                                      *)
(***************************************************************************)
\* DocumentProcessor.__init__: self.chunk_size
chunk_size == 1000

\* DocumentProcessor.__init__: self.chunk_overlap
chunk_overlap == 100

\* the literal 50 of `break_point > start + 50`
BreakThreshold == 50

\* _create_prompt: the words of the template around the question and the chunks
PromptFixedWords == 48

\* _create_prompt: the words "[CHUNK" and "<id>]:" in front of each chunk text
ChunkLabelWords == 2

\* _combine_answers: the words of the template around the question and the answers
CombineFixedWords == 17

\* _combine_answers: the words "Answer from batch <i>:" in front of each answer
AnswerLabelWords == 4

\* ask_question: the batch_size it passes to generate_answer_batched
AskBatchSize == 5

(***************************************************************************)
(* Bounds of the model.                                                    *)
(***************************************************************************)
\* GenSpec: longest chunk sequence passed to generate_answer_batched
MaxIn == 3

\* GenSpec: largest batch_size
MaxBatch == 3

\* most words in a question and in a chunk text
MaxWords == 2

\* most words in a completion's response text
MaxRespWords == 1

\* ServerSpec: most documents uploaded
MaxDocs == 2

\* ServerSpec: most document ids in one /ask request
MaxAskDocs == 2

\* ServerSpec: most messages in the session history
MaxHistory == 2

\* longest text
MaxLen == 2501

\* text lengths are the n <= MaxLen with n % LenStep <= 1
LenStep == 500

\* at most this many '.' and newline characters in a text
MaxBreaks == 2

\* chunk_text is followed for at most this many emitted chunks
MaxChunks == 8

VARIABLES
    text,       \* chunk_text: the input, [len, dots, nls]
    start,      \* chunk_text: the cursor
    chunks,     \* chunk_text: the list built so far
    cpc,        \* chunk_text: "loop" while in the while loop, "done" after return
    question,   \* generate_answer_batched: the question, as its number of words
    gchunks,    \* generate_answer_batched: the chunks argument
    batch_size, \* generate_answer_batched: the batch_size argument
    batches,    \* generate_answer_batched: the batches list
    batch_num,  \* generate_answer_batched: batches processed so far
    all_results,\* generate_answer_batched: the per-batch results
    calls,      \* every model.generate_content call of this request, in order
    result,     \* generate_answer_batched: the returned dict, NoResult before
    gpc,        \* generate_answer_batched: "idle", "entry", "loop", "returned", "raised"
    documents,  \* main.documents: document id d is documents[d]
    history,    \* the session's history list in Redis
    spc,        \* the request being handled: "idle", "upload", "ask"
    ask_docs,   \* ask_question: document_ids of the request being handled
    resp        \* the response to the last request, Pending while one is handled

cvars == <<text, start, chunks, cpc>>

gvars == <<question, gchunks, batch_size, batches, batch_num, all_results, calls,
           result, gpc>>

svars == <<documents, history, spc, ask_docs, resp>>

vars == <<text, start, chunks, cpc, question, gchunks, batch_size, batches,
          batch_num, all_results, calls, result, gpc, documents, history, spc,
          ask_docs, resp>>

(***************************************************************************)
(* Texts.  Only the places of '.' and '\n' matter to chunk_text, so a text *)
(* is its length with the set of positions holding '.' and the set holding *)
(* '\n'; every other position holds some other character.                  *)
(***************************************************************************)
Max(S) == CHOOSE x \in S : \A y \in S : y <= x

Min2(a, b) == IF a <= b THEN a ELSE b

TextLens == {n \in 0..MaxLen : n % LenStep <= 1}

\* the cursor's advance when no breakpoint is taken
Stride == chunk_size - chunk_overlap

\* where a '.' or a newline may sit, relative to a multiple of Stride (the
\* window starts of a text without breakpoints): at the window start, on both
\* sides of the threshold, on both sides of the overlap, mid-window, at the
\* window's last new character, and at the offsets 30 and 60
Offsets ==
    {0, 30, BreakThreshold, BreakThreshold + 1, 60, chunk_overlap - 1,
     chunk_overlap, chunk_size \div 2, Stride - 1}

Positions(n) ==
    {p \in {k * Stride + o : k \in 0..(n \div Stride), o \in Offsets} : p < n}

\* the subsets of S with at most k elements
RECURSIVE UpTo(_, _)
UpTo(S, k) ==
    IF k = 0 THEN {{}}
    ELSE LET smaller == UpTo(S, k - 1)
         IN smaller \cup
            {B \cup {p} : B \in {X \in smaller : Cardinality(X) = k - 1}, p \in S}

\* the texts of length n: a set B of at most MaxBreaks positions, each holding
\* a '.' (those of d) or a newline
IsText(t, n) ==
    \E B \in UpTo(Positions(n), MaxBreaks) :
        \E d \in SUBSET B : t = [len |-> n, dots |-> d, nls |-> B \ d]

(***************************************************************************)
(* Python's slice indices: a negative index counts from the end, and both  *)
(* ends are clamped to [0, len].                                           *)
(***************************************************************************)
SliceIndex(i, n) ==
    IF i < 0 THEN (IF i + n < 0 THEN 0 ELSE i + n)
    ELSE Min2(i, n)

\* whether position p is one of text[lo:hi], for a text of length n
InSlice(p, n, lo, hi) == SliceIndex(lo, n) <= p /\ p < SliceIndex(hi, n)

\* str.rfind(ch, lo, hi) for a one-character ch whose positions are `places`
RFind(places, n, lo, hi) ==
    LET found == {p \in places : InSlice(p, n, lo, hi)}
    IN IF found = {} THEN -1 ELSE Max(found)

(***************************************************************************)
(* GeminiClient.generate_answer_batched.                                   *)
(*                                                                         *)
(* A chunk here is [chunk_id, words]: of its text the generator reads only *)
(* text[:500], and the accounting only the number of whitespace-separated  *)
(* words of text[:500] + "...", which is `words` (at least 1, the "..."    *)
(* itself).  A question is its number of words inside the quotes of the    *)
(* template (at least 1, the quotes themselves).  A response text is       *)
(* [call, words]: the completion call that produced it and its number of   *)
(* words, so that two calls never produce the same text.                   *)
(***************************************************************************)
RECURSIVE SumSeq(_)
SumSeq(q) == IF q = <<>> THEN 0 ELSE Head(q) + SumSeq(Tail(q))

NoResult == [answer |-> [call |-> 0, words |-> 0], batch_size |-> -1,
             tokens_used |-> [prompt_tokens |-> -1, candidates_tokens |-> -1,
                              total_tokens |-> -1]]

NoResponse == [call |-> 0, words |-> 0]

\* Python's None and a value that is not None
None == <<>>

Some(x) == <<x>>

\* no response yet
Pending == [op |-> "none", code |-> 0, doc |-> 0, body |-> <<>>]

\* range(0, n, step) as the sequence of its values
PyRange(n, step) == [j \in 1..((n + step - 1) \div step) |-> (j - 1) * step]

\* cs[i:j] for 0 <= i <= j
PySlice(cs, i, j) == SubSeq(cs, i + 1, Min2(j, Len(cs)))

\* faulty variant: the last, shorter batch is lost
BatchesFullOnly(cs, bs) ==
    [j \in 1..(Len(cs) \div bs) |-> PySlice(cs, (j - 1) * bs, j * bs)]

\* line 19
Batches(cs, bs) ==
    LET r == PyRange(Len(cs), bs)
    IN [j \in 1..Len(r) |-> PySlice(cs, r[j], r[j] + bs)]

\* lines 60-75, len(prompt.split())
CreatePromptWords(q, batch) ==
    PromptFixedWords + q
        + SumSeq([k \in 1..Len(batch) |-> ChunkLabelWords + batch[k].words])

\* lines 83-90, len(summary_prompt.split())
CombinePromptWords(q, results) ==
    CombineFixedWords + q
        + SumSeq([k \in 1..Len(results) |-> AnswerLabelWords + results[k].response.words])

\* lines 33-37
Usage(pw, rw) ==
    [prompt_tokens |-> pw, candidates_tokens |-> rw, total_tokens |-> pw + rw]

\* faulty variant: total_tokens sums the prompt tokens again
TotalsCopyPaste(results) ==
    [prompt_tokens |-> SumSeq([k \in 1..Len(results) |-> results[k].usage.prompt_tokens]),
     candidates_tokens |->
         SumSeq([k \in 1..Len(results) |-> results[k].usage.candidates_tokens]),
     total_tokens |-> SumSeq([k \in 1..Len(results) |-> results[k].usage.prompt_tokens])]

\* lines 44-48
Totals(results) ==
    [prompt_tokens |-> SumSeq([k \in 1..Len(results) |-> results[k].usage.prompt_tokens]),
     candidates_tokens |->
         SumSeq([k \in 1..Len(results) |-> results[k].usage.candidates_tokens]),
     total_tokens |-> SumSeq([k \in 1..Len(results) |-> results[k].usage.total_tokens])]

\* a model.generate_content call, as logged
Call(kind, pw, ok, r) == [kind |-> kind, prompt |-> pw, ok |-> ok, response |-> r]

\* no call of generate_answer_batched is running
GenIdle ==
    /\ question = 0
    /\ gchunks = <<>>
    /\ batch_size = 0
    /\ batches = <<>>
    /\ batch_num = 0
    /\ all_results = <<>>
    /\ calls = <<>>
    /\ result = NoResult
    /\ gpc = "idle"

\* chunk_text is not running
ChunkIdle ==
    /\ text = [len |-> 0, dots |-> {}, nls |-> {}]
    /\ start = 0
    /\ chunks = <<>>
    /\ cpc = "idle"

\* the process has just started: no document, no request
ServerIdle ==
    /\ documents = <<>>
    /\ history = <<>>
    /\ spc = "idle"
    /\ ask_docs = <<>>
    /\ resp = Pending

\* generate_answer_batched(q, cs, bs) is entered
GenEnter(q, cs, bs) ==
    /\ question' = q
    /\ gchunks' = cs
    /\ batch_size' = bs
    /\ batches' = <<>>
    /\ batch_num' = 0
    /\ all_results' = <<>>
    /\ calls' = <<>>
    /\ result' = NoResult
    /\ gpc' = "entry"

\* lines 19-22
GenBegin ==
    /\ gpc = "entry"
    /\ batches' = Batches(gchunks, batch_size)
    /\ all_results' = <<>>
    /\ gpc' = "loop"
    /\ UNCHANGED <<question, gchunks, batch_size, batch_num, calls, result>>
    /\ UNCHANGED <<cvars, svars>>

\* faulty variant: a failed batch is skipped and the loop goes on with the next one
BatchCallSkipFailed ==
    /\ gpc = "loop"
    /\ batch_num < Len(batches)
    /\ LET pw == CreatePromptWords(question, batches[batch_num + 1])
       IN \/ \E w \in 0..MaxRespWords :
                 LET rtext == [call |-> Len(calls) + 1, words |-> w]
                 IN /\ calls' = Append(calls, Call("batch", pw, TRUE, rtext))
                    /\ all_results' = Append(all_results,
                           [batch |-> batch_num, response |-> rtext,
                            usage |-> Usage(pw, w)])
          \/ /\ calls' = Append(calls, Call("batch", pw, FALSE, NoResponse))
             /\ UNCHANGED all_results
    /\ batch_num' = batch_num + 1
    /\ UNCHANGED <<question, gchunks, batch_size, batches, result, gpc>>
    /\ UNCHANGED <<cvars, svars>>

\* lines 23-38: one batch; generate_content returns a text or raises, and the
\* handler of lines 56-58 logs and raises again
BatchCall ==
    /\ gpc = "loop"
    /\ batch_num < Len(batches)
    /\ LET pw == CreatePromptWords(question, batches[batch_num + 1])
       IN \/ \E w \in 0..MaxRespWords :
                 LET rtext == [call |-> Len(calls) + 1, words |-> w]
                 IN /\ calls' = Append(calls, Call("batch", pw, TRUE, rtext))
                    /\ all_results' = Append(all_results,
                           [batch |-> batch_num, response |-> rtext,
                            usage |-> Usage(pw, w)])
                    /\ batch_num' = batch_num + 1
                    /\ UNCHANGED gpc
          \/ /\ calls' = Append(calls, Call("batch", pw, FALSE, NoResponse))
             /\ gpc' = "raised"
             /\ UNCHANGED <<all_results, batch_num>>
    /\ UNCHANGED <<question, gchunks, batch_size, batches, result>>
    /\ UNCHANGED <<cvars, svars>>

\* lines 50-54
Returned(final) ==
    [answer |-> final, batch_size |-> Len(batches), tokens_used |-> Totals(all_results)]

\* lines 41-54: _combine_answers, then the totals and the return
Combine ==
    /\ gpc = "loop"
    /\ batch_num = Len(batches)
    /\ \/ /\ Len(all_results) = 1
          /\ result' = Returned(all_results[1].response)
          /\ gpc' = "returned"
          /\ UNCHANGED calls
       \/ /\ Len(all_results) # 1
          /\ LET pw == CombinePromptWords(question, all_results)
             IN \/ \E w \in 0..MaxRespWords :
                       LET rtext == [call |-> Len(calls) + 1, words |-> w]
                       IN /\ calls' = Append(calls, Call("combine", pw, TRUE, rtext))
                          /\ result' = Returned(rtext)
                          /\ gpc' = "returned"
                \/ /\ calls' = Append(calls, Call("combine", pw, FALSE, NoResponse))
                   /\ gpc' = "raised"
                   /\ UNCHANGED result
    /\ UNCHANGED <<question, gchunks, batch_size, batches, batch_num, all_results>>
    /\ UNCHANGED <<cvars, svars>>

(***************************************************************************)
(* DocumentProcessor.chunk_text, one iteration of the while loop.          *)
(***************************************************************************)
\* lines 60-62: the last '.', or the last newline when there is no '.'
BreakPoint(t, s, e) ==
    LET dot == RFind(t.dots, t.len, s, e)
    IN IF dot = -1 THEN RFind(t.nls, t.len, s, e) ELSE dot

\* faulty variant: the threshold compared with >= instead of >
TakesBreakAtThreshold(bp, s) == bp # -1 /\ bp >= s + BreakThreshold

\* line 63: whether the breakpoint is taken
TakesBreak(bp, s) == bp # -1 /\ bp > s + BreakThreshold

\* lines 55-64: the end of the chunk that starts at s
ChunkEnd(t, s) ==
    LET e == s + chunk_size
    IN IF e < t.len
       THEN LET bp == BreakPoint(t, s, e)
            IN IF TakesBreak(bp, s) THEN bp + 1 ELSE e
       ELSE e

\* faulty variant: the overlap is forgotten
NextStartNoOverlap(t, e) == e

\* line 73: the next cursor
NextStart(t, e) == IF e < t.len THEN e - chunk_overlap ELSE e

\* lines 66-70: the chunk appended; `start` and `end` are the slice bounds of
\* text[start:end] as written, before Python resolves them
NewChunk(cs, s, e) == [chunk_id |-> Len(cs), start |-> s, end |-> e]

ChunkInit ==
    /\ \E n \in TextLens : IsText(text, n)
    /\ start = 0
    /\ chunks = <<>>
    /\ cpc = "loop"
    /\ GenIdle
    /\ ServerIdle

\* one iteration of `while start < rtextlength`
ChunkStep ==
    /\ cpc = "loop"
    /\ start < text.len
    /\ Len(chunks) < MaxChunks
    /\ LET e == ChunkEnd(text, start)
       IN /\ chunks' = Append(chunks, NewChunk(chunks, start, e))
          /\ start' = NextStart(text, e)
    /\ UNCHANGED <<text, cpc>>
    /\ UNCHANGED <<gvars, svars>>

\* the loop condition fails: return chunks
ChunkReturn ==
    /\ cpc = "loop"
    /\ ~(start < text.len)
    /\ cpc' = "done"
    /\ UNCHANGED <<text, start, chunks>>
    /\ UNCHANGED <<gvars, svars>>

ChunkNext == ChunkStep \/ ChunkReturn

ChunkSpec == ChunkInit /\ [][ChunkNext]_vars

(***************************************************************************)
(* main.py: the registry and the handlers.  Every handler is an `async     *)
(* def` without an await, so the event loop runs it to its end before the  *)
(* next request: while spc is not "idle" only the request being handled    *)
(* moves.  Document ids are fresh (uuid4): the d-th upload gets id d.       *)
(* The chunk texts are not read by the handlers: a stored chunk is         *)
(* [chunk_id, words] with a one-word text.  main.py names QuestionRequest  *)
(* and AnswerResponse without importing them from models.py; the handlers  *)
(* are modelled as their bodies read, with those names bound.              *)
(***************************************************************************)
\* the chunk lists process_document may store: of an empty text, of a short
\* text, and one chunk more than a batch of ask_question holds
DocSizes == {0, 1, AskBatchSize + 1}

StoredChunks(n) == [k \in 1..n |-> [chunk_id |-> k - 1, words |-> 1]]

\* the document ids a request may name: every id in use and one never issued
RequestIds == 1..(MaxDocs + 1)

RECURSIVE IdLists(_)
IdLists(n) ==
    IF n = 0 THEN {<<>>}
    ELSE LET shorter == IdLists(n - 1)
         IN shorter \cup
            {Append(ids, d) : ids \in {x \in shorter : Len(x) = n - 1}, d \in RequestIds}

Known(d) == d \in 1..Len(documents)

Response(op, code, d, body) == [op |-> op, code |-> code, doc |-> d, body |-> body]

\* lines 41-45: the extension is not allowed
UploadRejected ==
    /\ spc = "idle"
    /\ resp' = Response("upload", 400, 0, <<>>)
    /\ UNCHANGED <<documents, history, spc, ask_docs>>
    /\ UNCHANGED <<cvars, gvars>>

\* lines 47-65: the document is registered
UploadStore ==
    /\ spc = "idle"
    /\ Len(documents) < MaxDocs
    /\ documents' = Append(documents, [status |-> "processing", chunks |-> None])
    /\ spc' = "upload"
    /\ resp' = Pending
    /\ UNCHANGED <<history, ask_docs>>
    /\ UNCHANGED <<cvars, gvars>>

\* lines 77-97, then 71-75: process_document on the document just registered;
\* extract_text or chunk_text raises, or the chunks are stored
ProcessDocument ==
    /\ spc = "upload"
    /\ LET d == Len(documents)
       IN \/ \E n \in DocSizes :
                 documents' = [documents EXCEPT
                                   ![d] = [status |-> "completed",
                                           chunks |-> Some(StoredChunks(n))]]
          \/ documents' = [documents EXCEPT ![d].status = "failed"]
    /\ spc' = "idle"
    /\ resp' = Response("upload", 200, Len(documents), <<>>)
    /\ UNCHANGED <<history, ask_docs>>
    /\ UNCHANGED <<cvars, gvars>>

\* lines 99-108
StatusResponse(d) ==
    IF ~Known(d) THEN Response("status", 404, d, <<>>)
    ELSE Response("status", 200, d, <<documents[d].status>>)

GetStatus ==
    /\ spc = "idle"
    /\ \E d \in RequestIds : resp' = StatusResponse(d)
    /\ UNCHANGED <<documents, history, spc, ask_docs>>
    /\ UNCHANGED <<cvars, gvars>>

\* faulty variant: the status is not looked at
ChunksResponseAnyStatus(d) ==
    IF ~Known(d) THEN Response("chunks", 404, d, <<>>)
    ELSE Response("chunks", 200, d, documents[d].chunks)

\* lines 110-122; the body is the stored chunks value, None or a list
ChunksResponse(d) ==
    IF ~Known(d) THEN Response("chunks", 404, d, <<>>)
    ELSE IF documents[d].status # "completed" THEN Response("chunks", 400, d, <<>>)
    ELSE Response("chunks", 200, d, documents[d].chunks)

GetChunks ==
    /\ spc = "idle"
    /\ \E d \in RequestIds : resp' = ChunksResponse(d)
    /\ UNCHANGED <<documents, history, spc, ask_docs>>
    /\ UNCHANGED <<cvars, gvars>>

\* lines 131-136: the status code of the first document that fails the
\* validation, 0 when every document passes
RECURSIVE Validate(_)
Validate(ids) ==
    IF ids = <<>> THEN 0
    ELSE IF ~Known(Head(ids)) THEN 404
    ELSE IF documents[Head(ids)].status # "completed" THEN 400
    ELSE Validate(Tail(ids))

\* lines 138-141
RECURSIVE AllChunks(_)
AllChunks(ids) ==
    IF ids = <<>> THEN <<>>
    ELSE documents[Head(ids)].chunks[1] \o AllChunks(Tail(ids))

\* lines 127-136: a request that fails the validation
AskRejected ==
    /\ spc = "idle"
    /\ \E ids \in IdLists(MaxAskDocs) :
           /\ Validate(ids) # 0
           /\ resp' = Response("ask", Validate(ids), 0, <<>>)
    /\ UNCHANGED <<documents, history, spc, ask_docs>>
    /\ UNCHANGED <<cvars, gvars>>

\* lines 127-144: a request that passes it; generate_answer_batched is entered
AskBegin ==
    /\ spc = "idle"
    /\ Len(history) + 2 <= MaxHistory
    /\ \E ids \in IdLists(MaxAskDocs), q \in 1..MaxWords :
           /\ Validate(ids) = 0
           /\ ask_docs' = ids
           /\ GenEnter(q, AllChunks(ids), AskBatchSize)
    /\ spc' = "ask"
    /\ resp' = Pending
    /\ UNCHANGED <<documents, history>>
    /\ UNCHANGED cvars

\* the locals of generate_answer_batched are gone
GenLeave ==
    /\ question' = 0
    /\ gchunks' = <<>>
    /\ batch_size' = 0
    /\ batches' = <<>>
    /\ batch_num' = 0
    /\ all_results' = <<>>
    /\ calls' = <<>>
    /\ result' = NoResult
    /\ gpc' = "idle"

\* lines 146-157: generate_answer_batched has returned
AskFinish ==
    /\ spc = "ask"
    /\ gpc = "returned"
    /\ history' = history \o <<[role |-> "user", content |-> question],
                               [role |-> "assistant", content |-> result.answer]>>
    /\ resp' = Response("ask", 200, 0, <<result.answer>>)
    /\ spc' = "idle"
    /\ ask_docs' = <<>>
    /\ GenLeave
    /\ UNCHANGED documents
    /\ UNCHANGED cvars

\* line 144 raises: the exception leaves ask_question
AskFail ==
    /\ spc = "ask"
    /\ gpc = "raised"
    /\ resp' = Response("ask", 500, 0, <<>>)
    /\ spc' = "idle"
    /\ ask_docs' = <<>>
    /\ GenLeave
    /\ UNCHANGED <<documents, history>>
    /\ UNCHANGED cvars

ServerInit == ChunkIdle /\ GenIdle /\ ServerIdle

ServerNext ==
    \/ UploadRejected
    \/ UploadStore
    \/ ProcessDocument
    \/ GetStatus
    \/ GetChunks
    \/ AskRejected
    \/ AskBegin
    \/ GenBegin
    \/ BatchCall
    \/ Combine
    \/ AskFinish
    \/ AskFail

ServerSpec == ServerInit /\ [][ServerNext]_vars

(***************************************************************************)
(* GenSpec: one call of generate_answer_batched, its arguments drawn from  *)
(* the chunk sequences of at most MaxIn chunks, the batch sizes up to      *)
(* MaxBatch and the questions of at most MaxWords words.                   *)
(***************************************************************************)
RECURSIVE ChunkSeqs(_)
ChunkSeqs(n) ==
    IF n = 0 THEN {<<>>}
    ELSE LET shorter == ChunkSeqs(n - 1)
         IN shorter \cup
            {Append(cs, [chunk_id |-> n - 1, words |-> w]) :
                 cs \in {x \in shorter : Len(x) = n - 1}, w \in 1..MaxWords}

GenInit ==
    /\ ChunkIdle
    /\ ServerIdle
    /\ question \in 1..MaxWords
    /\ gchunks \in ChunkSeqs(MaxIn)
    /\ batch_size \in 1..MaxBatch
    /\ batches = <<>>
    /\ batch_num = 0
    /\ all_results = <<>>
    /\ calls = <<>>
    /\ result = NoResult
    /\ gpc = "entry"

GenNext == GenBegin \/ BatchCall \/ Combine

GenSpec == GenInit /\ [][GenNext]_vars

(***************************************************************************)
(* Claims about chunk_text (checked under ChunkSpec).                      *)
(***************************************************************************)
NoBreaks(t) == t.dots = {} /\ t.nls = {}

\* the tentative end of chunk c
Tentative(c) == c.start + chunk_size

\* C1: chunk_text terminates on every text: the cursor eventually reaches or
\* passes len(text).  The loop body is a function of the cursor alone (the
\* text never changes), so an iteration that leaves the cursor where it was
\* is repeated for ever; termination therefore requires that every iteration
\* moves the cursor.
ChunkTextTerminates ==
    [][(cpc = "loop" /\ start < text.len) => start' # start]_vars

\* C2: when chunk_text has returned, every position of the text lies in the
\* slice text[start:end] of some emitted chunk, and the empty text gives no
\* chunk.
ChunksCoverText ==
    cpc = "done" =>
        /\ \A i \in 0..(text.len - 1) :
               \E k \in 1..Len(chunks) :
                   InSlice(i, text.len, chunks[k].start, chunks[k].end)
        /\ (text.len = 0 => chunks = <<>>)

\* C3: chunk ids are 0, 1, 2, ... in emission order, each chunk starts
\* strictly to the right of the one before it, and the cursor is never
\* negative.
ChunkOrderMatchesPosition ==
    /\ \A k \in 1..Len(chunks) : chunks[k].chunk_id = k - 1
    /\ \A k \in 1..(Len(chunks) - 1) : chunks[k + 1].start > chunks[k].start
    /\ start >= 0

\* C8: on a text without '.' and newline, chunk k is the slice
\* [k*(chunk_size-overlap), min(k*(chunk_size-overlap)+chunk_size, len)), every
\* chunk but the last has its tentative end before the end of the text, and
\* the returned list ends with the first chunk whose tentative end is >= len;
\* a text of 2500 characters gives 0-1000, 900-1900, 1800-2500.
NoBreakStride ==
    NoBreaks(text) =>
        /\ \A k \in 1..Len(chunks) :
               /\ chunks[k].chunk_id = k - 1
               /\ chunks[k].start = (k - 1) * Stride
               /\ SliceIndex(chunks[k].end, text.len)
                      = Min2((k - 1) * Stride + chunk_size, text.len)
               /\ (k < Len(chunks) => Tentative(chunks[k]) < text.len)
        /\ (cpc = "done" /\ text.len > 0 =>
               /\ chunks # <<>>
               /\ Tentative(chunks[Len(chunks)]) >= text.len)
        /\ (cpc = "done" /\ text.len = 0 => chunks = <<>>)
        /\ (cpc = "done" /\ text.len = 2500 =>
               [k \in 1..Len(chunks) |->
                   <<chunks[k].start, SliceIndex(chunks[k].end, text.len)>>]
                 = << <<0, 1000>>, <<900, 1900>>, <<1800, 2500>> >>)

NoBreakStrideWitness ==
    /\ cpc = "done"
    /\ NoBreaks(text)
    /\ text.len = 2500
    /\ Len(chunks) = 3

\* C9: for every emitted chunk whose tentative end t = start + chunk_size is
\* before the end of the text, with b the last '.' of text[start:t], or the
\* last newline of it when it holds no '.', the chunk ends at b + 1 when b
\* exists and b > start + 50 and at t otherwise; a chunk whose tentative end
\* is >= len ends at t, so its slice runs to the end of the text.
BreakRule ==
    \A k \in 1..Len(chunks) :
        LET c == chunks[k]
            t == Tentative(c)
            dotsW == {p \in text.dots : InSlice(p, text.len, c.start, t)}
            nlsW == {p \in text.nls : InSlice(p, text.len, c.start, t)}
            cand == IF dotsW # {} THEN dotsW ELSE nlsW
            taken == cand # {} /\ Max(cand) > c.start + 50
        IN IF t < text.len
           THEN c.end = (IF taken THEN Max(cand) + 1 ELSE t)
           ELSE c.end = t /\ SliceIndex(c.end, text.len) = text.len

\* a chunk cut right after a '.', before its tentative end, although the
\* window holds a newline further to the right
BreakRuleWitness ==
    \E k \in 1..Len(chunks) :
        /\ Tentative(chunks[k]) < text.len
        /\ chunks[k].end - 1 \in text.dots
        /\ chunks[k].end < Tentative(chunks[k])
        /\ \E p \in text.nls : chunks[k].end <= p /\ p < Tentative(chunks[k])

(***************************************************************************)
(* Claims about generate_answer_batched (checked under GenSpec).           *)
(***************************************************************************)
RECURSIVE Flatten(_)
Flatten(bs) == IF bs = <<>> THEN <<>> ELSE Head(bs) \o Flatten(Tail(bs))

IsBatchCall(c) == c.kind = "batch"

IsCombineCall(c) == c.kind = "combine"

BatchCalls == SelectSeq(calls, IsBatchCall)

CombineCalls == SelectSeq(calls, IsCombineCall)

\* C4: when generate_answer_batched has returned, the completion was called
\* once per batch, in batch order, and then once more (the consolidation) if
\* and only if there was more than one batch; with one batch the answer is
\* that batch's response; the reported batch count is the number of
\* per-batch calls.  This covers the empty chunk sequence.
OneCallPerBatchThenConsolidation ==
    gpc = "returned" =>
        /\ Len(BatchCalls) = Len(batches)
        /\ \A i \in 1..Len(batches) :
               /\ IsBatchCall(calls[i])
               /\ calls[i].prompt = CreatePromptWords(question, batches[i])
        /\ Len(CombineCalls) = (IF Len(batches) > 1 THEN 1 ELSE 0)
        /\ (Len(batches) > 1 => IsCombineCall(calls[Len(calls)]))
        /\ (Len(batches) = 1 => result.answer = calls[1].response)
        /\ result.batch_size = Len(BatchCalls)

\* C5: the returned totals are the sums over the per-batch calls only:
\* prompt_tokens of the words of their prompts, candidates_tokens of the words
\* of their responses, and total_tokens is prompt_tokens + candidates_tokens;
\* the consolidation call adds to none of them.
TotalsArePerBatchSums ==
    gpc = "returned" =>
        LET prompts == SumSeq([i \in 1..Len(BatchCalls) |-> BatchCalls[i].prompt])
            answers == SumSeq([i \in 1..Len(BatchCalls) |-> BatchCalls[i].response.words])
        IN /\ result.tokens_used.prompt_tokens = prompts
           /\ result.tokens_used.candidates_tokens = answers
           /\ result.tokens_used.total_tokens = prompts + answers

\* returned after two or more batches and a consolidation whose response has
\* words of its own
TotalsArePerBatchSumsWitness ==
    /\ gpc = "returned"
    /\ Len(BatchCalls) >= 2
    /\ Len(CombineCalls) = 1
    /\ CombineCalls[1].response.words > 0
    /\ result.tokens_used.candidates_tokens > 0

\* C7: the batches are an ordered partition of the chunk sequence into
\* contiguous slices: their concatenation is the sequence, every batch but
\* the last has batch_size chunks, the last has 1..batch_size, and the empty
\* sequence gives no batch.
BatchesPartitionChunks ==
    gpc \in {"loop", "returned", "raised"} =>
        /\ Flatten(batches) = gchunks
        /\ \A j \in 1..(Len(batches) - 1) : Len(batches[j]) = batch_size
        /\ (batches # <<>> =>
               /\ Len(batches[Len(batches)]) >= 1
               /\ Len(batches[Len(batches)]) <= batch_size)
        /\ (gchunks = <<>> => batches = <<>>)

\* several batches, the last one shorter than batch_size
BatchesPartitionChunksWitness ==
    /\ gpc = "loop"
    /\ Len(batches) >= 2
    /\ Len(batches[Len(batches)]) < batch_size

(***************************************************************************)
(* Claims about the handlers (checked under ServerSpec).                   *)
(***************************************************************************)
Completed(d) == Known(d) /\ documents[d].status = "completed"

\* C6: a completion call that fails is the last call of its request, no
\* answer is returned, the request ends with the failure (status 500) and
\* nothing is appended to the session history.
FailureAbortsRequest ==
    /\ [](\A i \in 1..Len(calls) :
              ~calls[i].ok =>
                  /\ i = Len(calls)
                  /\ gpc = "raised"
                  /\ result = NoResult)
    /\ [][(gpc' = "raised" => history' = history)
          /\ (gpc = "raised" =>
                 /\ history' = history
                 /\ calls' = <<>>
                 /\ resp' = Response("ask", 500, 0, <<>>))]_vars

\* the first of several batches has failed: the other batches are left
FailureAbortsRequestWitness ==
    /\ spc = "ask"
    /\ gpc = "raised"
    /\ Len(calls) = 1
    /\ ~calls[1].ok
    /\ Len(batches) > 1

\* C10: chunks are returned by GET chunks and used by /ask only for
\* completed documents; a completed document has a chunk list, a processing
\* or failed one has None; a completed or failed document never changes; a
\* rejected /ask makes no completion call and appends nothing to the history.
ChunksOnlyWhenCompleted ==
    /\ [](/\ \A d \in 1..Len(documents) :
                /\ documents[d].status \in {"processing", "completed", "failed"}
                /\ (documents[d].status = "completed" => documents[d].chunks # None)
                /\ (documents[d].status # "completed" => documents[d].chunks = None)
          /\ (resp.op = "chunks" /\ resp.code = 200 =>
                 /\ Completed(resp.doc)
                 /\ resp.body = documents[resp.doc].chunks)
          /\ (spc = "ask" =>
                 /\ \A i \in 1..Len(ask_docs) : Completed(ask_docs[i])
                 /\ gchunks = AllChunks(ask_docs))
          /\ (spc # "ask" => calls = <<>> /\ gpc = "idle"))
    /\ [][/\ \A d \in 1..Len(documents) :
                documents[d].status \in {"completed", "failed"} =>
                    /\ d <= Len(documents')
                    /\ documents'[d] = documents[d]
          /\ (resp'.op = "ask" /\ resp'.code \in {400, 404} =>
                 /\ calls' = <<>>
                 /\ gpc' = "idle"
                 /\ history' = history)]_vars

\* after an answered question, an /ask naming a failed document was rejected
\* while another document is completed
ChunksOnlyWhenCompletedWitness ==
    /\ resp = Response("ask", 400, 0, <<>>)
    /\ history # <<>>
    /\ \E d \in 1..Len(documents) : documents[d].status = "failed"
    /\ \E d \in 1..Len(documents) : documents[d].status = "completed"

====
